---- MODULE Spec2Model ----
(***************************************************************************)
(* Model of src/main.py: a Streamlit page that keeps a wallets table and a *)
(* transactions table in SQLite and, per browser session, starts or stops  *)
(* a background thread that subscribes to the provider's mined-transaction *)
(* feed over a websocket and stores every transaction it receives.         *)
(*                                                                         *)
(* Strings the code inspects character by character (wallet addresses)     *)
(* are sequences of one-character strings.                                 *)
(***************************************************************************)
EXTENDS Integers, Sequences, FiniteSets, TLC

VARIABLES
    wallets,            \* rows of table wallets: [address, added_time]
    transactions,       \* rows of table transactions
    threads,            \* the threading.Thread objects that exist
    monitoring_thread,  \* st.session_state["monitoring_thread"], per session
    stop_event,         \* st.session_state["stop_event"], per session
    is_monitoring,      \* st.session_state["is_monitoring"], per session
    ingested            \* history: payloads handed to add_transaction_to_db

vars == <<wallets, transactions, threads, monitoring_thread, stop_event,
          is_monitoring, ingested>>

----------------------------------------------------------------------------
(* Bounds of the model *)

\* Thread objects in existence at one time
MaxThreads == 2
\* transaction payloads stored in one run of the model
MaxTx == 2

\* browser sessions served by the process; each has its own st.session_state
Sessions == {"s1", "s2"}
\* readings of datetime.now().strftime(...)
Times == {"t1", "t2"}

\* monitoring_thread before any thread was started (threads count from 1)
None == 0

\* a JSON null where a string is expected
Null == <<>>

----------------------------------------------------------------------------
(* Wallet addresses *)

\* {40} in the pattern of is_valid_eth_address
HexLen == 40

HexDigits ==
    {"0", "1", "2", "3", "4", "5", "6", "7", "8", "9",
     "a", "b", "c", "d", "e", "f", "A", "B", "C", "D", "E", "F"}

Rep(c, n) == [i \in 1..n |-> c]

Addr(c) == <<"0", "x">> \o Rep(c, HexLen)

AddrA == Addr("a")
AddrAUpper == Addr("A")
\* an address nobody registers (the counterparty of a delivered transaction)
AddrC == Addr("c")

NotAnAddress ==
    <<"n", "o", "t", "-", "a", "n", "-", "a", "d", "d", "r", "e", "s", "s">>

\* what a user may type into the text input
Inputs == {AddrA, AddrAUpper, NotAnAddress, <<>>}

\* the addresses a Delete button can carry: those a page has listed
Listed == {AddrA, AddrAUpper}

\* re.match(r"^0x[a-fA-F0-9]{40}$", address): "$" matches at the end of the
\* string and also just before a newline that ends the string
is_valid_eth_address(address) ==
    LET n == Len(address)
        body == IF n > 0 /\ address[n] = "\n" THEN SubSeq(address, 1, n - 1)
                ELSE address
    IN  /\ Len(body) = HexLen + 2
        /\ body[1] = "0"
        /\ body[2] = "x"
        /\ \A i \in 3..(HexLen + 2) : body[i] \in HexDigits

LowerChar(c) ==
    CASE c = "A" -> "a" [] c = "B" -> "b" [] c = "C" -> "c"
      [] c = "D" -> "d" [] c = "E" -> "e" [] c = "F" -> "f"
      [] c = "X" -> "x" [] OTHER -> c

\* the address an address string denotes, whatever the case of its digits
Lower(address) == [i \in 1..Len(address) |-> LowerChar(address[i])]

----------------------------------------------------------------------------
(* SQLite tables *)

MaxOf(S) == CHOOSE x \in S : \A y \in S : y <= x

\* INTEGER PRIMARY KEY without AUTOINCREMENT: one more than the largest rowid
NextRowId(table) ==
    IF table = {} THEN 1 ELSE MaxOf({r.id : r \in table}) + 1

RECURSIVE RowsAscending(_)
RowsAscending(table) ==
    IF table = {} THEN <<>>
    ELSE LET first == CHOOSE r \in table : \A q \in table : r.id <= q.id
         IN  <<first>> \o RowsAscending(table \ {first})

RECURSIVE RowsDescending(_)
RowsDescending(table) ==
    IF table = {} THEN <<>>
    ELSE LET first == CHOOSE r \in table : \A q \in table : r.id >= q.id
         IN  <<first>> \o RowsDescending(table \ {first})

\* A row of wallets is [address, added_time]: the program never reads the
\* table's id column, so the model leaves it out.

\* INSERT OR REPLACE: the row holding the address is replaced by a new one
InsertWallet_replace(table, wallet_address, added_time) ==
    {r \in table : r.address # wallet_address}
        \cup {[address |-> wallet_address, added_time |-> added_time]}

\* INSERT OR IGNORE INTO wallets (address, added_time); address TEXT UNIQUE
\* (BINARY collation: two addresses conflict when they are the same string)
InsertWallet(table, wallet_address, added_time) ==
    IF \E r \in table : r.address = wallet_address THEN table
    ELSE table \cup {[address |-> wallet_address, added_time |-> added_time]}

\* DELETE ... WHERE address = ? COLLATE NOCASE
DeleteWallet_nocase(table, wallet_address) ==
    {r \in table : Lower(r.address) # Lower(wallet_address)}

\* DELETE FROM wallets WHERE address = ?
DeleteWallet(table, wallet_address) ==
    {r \in table : r.address # wallet_address}

\* SELECT address, added_time FROM wallets: the rows, in no promised order
fetch_monitored_addresses == wallets

\* A row of transactions: the id, and the fields of the payload as they
\* came (value stands for the other text columns, which are copied the same
\* way; date_added, the clock's reading, is only ever displayed and is left
\* out).
TxRow(id, data) ==
    [id |-> id, hash |-> data.hash, from_address |-> data.from,
     to_address |-> data.to, value |-> data.value]

\* INSERT OR IGNORE with a UNIQUE hash: a re-delivered transaction is dropped
InsertTransaction_unique(table, data) ==
    IF \E r \in table : r.hash = data.hash THEN table
    ELSE table \cup {TxRow(NextRowId(table), data)}

\* INSERT OR REPLACE with a UNIQUE hash: the older row of the hash is replaced
InsertTransaction_replace(table, data) ==
    LET kept == {r \in table : r.hash # data.hash}
    IN  kept \cup {TxRow(NextRowId(table), data)}

\* INSERT INTO transactions (...) VALUES (...): no constraint but the rowid
InsertTransaction(table, data) ==
    table \cup {TxRow(NextRowId(table), data)}

\* ORDER BY id (ascending)
fetch_transactions_asc == RowsAscending(transactions)

\* SELECT * FROM transactions ORDER BY id DESC
fetch_transactions == RowsDescending(transactions)

----------------------------------------------------------------------------
(* The provider's feed *)

\* params.result.transaction of the messages the provider may deliver; the
\* provider reports addresses in lower case, and "to" is null for a
\* contract creation
FeedTransactions ==
    {[hash |-> "0xh1", from |-> AddrA, to |-> Null, value |-> "0x1"],
     [hash |-> "0xh2", from |-> AddrC, to |-> AddrA, value |-> "0x2"]}

Hashes == {t.hash : t \in FeedTransactions}

\* messages that carry no storable transaction:
\*   no_payload  JSON without params.result.transaction (transaction = {})
\*   no_hash     a transaction payload without the key "hash"
\*   not_json    text json.loads rejects
OtherMessages == {"no_payload", "no_hash", "not_json"}

\* address_filters of the subscription request: {"from": addr} and
\* {"to": addr} for every address (a set: the provider ignores their order)
AddressFilters(addresses) ==
    {[side |-> "from", addr |-> a] : a \in addresses}
        \cup {[side |-> "to", addr |-> a] : a \in addresses}

\* the provider filters on its side: it delivers a transaction when one of
\* the request's filters names its sender or its recipient
Matches(request, t) ==
    \E f \in request :
        \/ f.side = "from" /\ Lower(f.addr) = Lower(t.from)
        \/ f.side = "to" /\ Lower(f.addr) = Lower(t.to)

----------------------------------------------------------------------------
(* Background threads *)

\* where a thread is in subscribe_to_mined_transactions
Connecting == "Connecting"      \* started, inside websockets.connect
Connected == "Connected"        \* connection open, request not yet sent
Subscribed == "Subscribed"      \* request sent, awaiting the acknowledgement
LoopTest == "LoopTest"          \* at "while not stop_event.is_set()"
Receiving == "Receiving"        \* awaiting websocket.recv() in the loop
Closed == "Closed"              \* left the loop: stop_event was set
Disconnected == "Disconnected"  \* left the loop: ConnectionClosed, break
Errored == "Errored"            \* "Subscription error": the outer except
Crashed == "Crashed"            \* websockets.connect raised; nothing catches

Terminated == {Closed, Disconnected, Errored, Crashed}
ConnectionOpen == {Connected, Subscribed, LoopTest, Receiving}

Threads == 1..Len(threads)

\* threading.Thread.is_alive()
is_alive(u) == threads[u].pc \notin Terminated

NewThread(s) == [session |-> s, pc |-> Connecting, request |-> {}]

\* the thread objects and the session handles once thread k is freed
Without(k) == [i \in 1..(Len(threads) - 1) |->
                    IF i < k THEN threads[i] ELSE threads[i + 1]]
Renumbered(k) == [s \in Sessions |->
                    IF monitoring_thread[s] > k THEN monitoring_thread[s] - 1
                    ELSE monitoring_thread[s]]

Referenced(u) == \E s \in Sessions : monitoring_thread[s] = u

\* thread u returns from start_monitoring: its locals are gone, and so is
\* the Thread object unless a session still holds it
Finish(u, how) ==
    /\ threads' = IF Referenced(u)
                  THEN [threads EXCEPT ![u] =
                            [session |-> threads[u].session, pc |-> how,
                             request |-> {}]]
                  ELSE Without(u)
    /\ monitoring_thread' = IF Referenced(u) THEN monitoring_thread
                            ELSE Renumbered(u)

Total(f) == f["0xh1"] + f["0xh2"]

----------------------------------------------------------------------------
Init ==
    /\ wallets = {}
    /\ transactions = {}
    /\ threads = <<>>
    /\ monitoring_thread = [s \in Sessions |-> None]
    /\ stop_event = [s \in Sessions |-> FALSE]
    /\ is_monitoring = [s \in Sessions |-> FALSE]
    /\ ingested = [h \in Hashes |-> 0]

----------------------------------------------------------------------------
(* toggle_monitoring *)

\* the test of the "if" decided by the flag shown on the button
ShouldStart_flag(s) == ~is_monitoring[s]

\* monitoring_thread is None or not monitoring_thread.is_alive()
ShouldStart(s) ==
    \/ monitoring_thread[s] = None
    \/ ~is_alive(monitoring_thread[s])

\* the "Start monitoring" branch
\* (the Thread the session held before loses its last reference: it is
\* freed if it has terminated, and lives on unreferenced if it has not)
StartMonitoring(s) ==
    LET old == monitoring_thread[s]
        freed == old # None /\ ~is_alive(old)
        rest == IF freed THEN Without(old) ELSE threads
        handles == IF freed THEN Renumbered(old) ELSE monitoring_thread
    IN  /\ Len(rest) < MaxThreads
        /\ stop_event' = [stop_event EXCEPT ![s] = FALSE]
        /\ threads' = Append(rest, NewThread(s))
        /\ monitoring_thread' = [handles EXCEPT ![s] = Len(rest) + 1]
        /\ is_monitoring' = [is_monitoring EXCEPT ![s] = TRUE]

\* a stop branch that forgets the flag
StopMonitoring_noflag(s) ==
    /\ stop_event' = [stop_event EXCEPT ![s] = TRUE]
    /\ UNCHANGED <<is_monitoring, threads, monitoring_thread>>

\* the "Stop monitoring" branch
StopMonitoring(s) ==
    /\ stop_event' = [stop_event EXCEPT ![s] = TRUE]
    /\ is_monitoring' = [is_monitoring EXCEPT ![s] = FALSE]
    /\ UNCHANGED <<threads, monitoring_thread>>

toggle_monitoring(s) ==
    /\ IF ShouldStart(s) THEN StartMonitoring(s) ELSE StopMonitoring(s)
    /\ UNCHANGED <<wallets, transactions, ingested>>

----------------------------------------------------------------------------
(* Wallet management *)

\* the script's run on a refresh (st_autorefresh, st.rerun): is_monitoring
\* is set only when the session has none yet, the tables are only read
rerun(s) == UNCHANGED vars

\* an add handler that stores whatever was typed
AddWallet_unchecked(wallet_address) ==
    /\ IF wallet_address # <<>>
       THEN \E now \in Times :
                wallets' = InsertWallet(wallets, wallet_address, now)
       ELSE UNCHANGED wallets
    /\ UNCHANGED <<transactions, threads, monitoring_thread, stop_event,
                   is_monitoring, ingested>>

\* an add handler that sends the new address list on the open subscriptions
AddWallet_resubscribes(wallet_address) ==
    /\ IF wallet_address # <<>> /\ is_valid_eth_address(wallet_address)
       THEN \E now \in Times :
                wallets' = InsertWallet(wallets, wallet_address, now)
       ELSE UNCHANGED wallets
    /\ threads' = [u \in DOMAIN threads |->
                      IF threads[u].pc \in {Subscribed, LoopTest, Receiving}
                      THEN [threads[u] EXCEPT
                                !.request = AddressFilters({r.address : r \in wallets'})]
                      ELSE threads[u]]
    /\ UNCHANGED <<transactions, monitoring_thread, stop_event,
                   is_monitoring, ingested>>

\* the "Add Wallet Address" button; the clock is read for a valid input only
\* (an input that fails the test gets st.error and nothing else happens)
AddWallet(wallet_address) ==
    /\ IF wallet_address # <<>> /\ is_valid_eth_address(wallet_address)
       THEN \E now \in Times :
                wallets' = InsertWallet(wallets, wallet_address, now)
       ELSE UNCHANGED wallets
    /\ UNCHANGED <<transactions, threads, monitoring_thread, stop_event,
                   is_monitoring, ingested>>

\* a "Delete" button of the wallet list
RemoveWallet(wallet_address) ==
    /\ wallets' = DeleteWallet(wallets, wallet_address)
    /\ UNCHANGED <<transactions, threads, monitoring_thread, stop_event,
                   is_monitoring, ingested>>

----------------------------------------------------------------------------
(* subscribe_to_mined_transactions, one step per await *)

UnitFrame == UNCHANGED <<wallets, stop_event, is_monitoring>>

\* websockets.connect succeeds
connect(u) ==
    /\ threads[u].pc = Connecting
    /\ threads' = [threads EXCEPT ![u].pc = Connected]
    /\ UNCHANGED <<transactions, ingested, monitoring_thread>>
    /\ UnitFrame

\* websockets.connect raises: the exception leaves asyncio.run
connect_fails(u) ==
    /\ threads[u].pc = Connecting
    /\ Finish(u, Crashed)
    /\ UNCHANGED <<transactions, ingested>>
    /\ UnitFrame

\* build the request from the wallets table and send it
send_subscription(u) ==
    /\ threads[u].pc = Connected
    /\ LET addresses == {row.address : row \in fetch_monitored_addresses}
       IN  threads' = [threads EXCEPT ![u].pc = Subscribed,
                                      ![u].request = AddressFilters(addresses)]
    /\ UNCHANGED <<transactions, ingested, monitoring_thread>>
    /\ UnitFrame

\* response = await websocket.recv()
recv_ack(u) ==
    /\ threads[u].pc = Subscribed
    /\ threads' = [threads EXCEPT ![u].pc = LoopTest]
    /\ UNCHANGED <<transactions, ingested, monitoring_thread>>
    /\ UnitFrame

\* "while True": a loop that never looks at the event
loop_test_forever(u) ==
    /\ threads[u].pc = LoopTest
    /\ threads' = [threads EXCEPT ![u].pc = Receiving]
    /\ UNCHANGED <<transactions, ingested, monitoring_thread>>
    /\ UnitFrame

\* while not stop_event.is_set()
loop_test(u) ==
    /\ threads[u].pc = LoopTest
    /\ IF stop_event[threads[u].session]
       THEN Finish(u, Closed)
       ELSE /\ threads' = [threads EXCEPT ![u].pc = Receiving]
            /\ UNCHANGED monitoring_thread
    /\ UNCHANGED <<transactions, ingested>>
    /\ UnitFrame

\* a message with a transaction payload arrives and is stored
recv_transaction(u, t) ==
    /\ threads[u].pc = Receiving
    /\ Matches(threads[u].request, t)
    /\ Total(ingested) < MaxTx
    /\ transactions' = InsertTransaction(transactions, t)
    /\ ingested' = [ingested EXCEPT ![t.hash] = @ + 1]
    /\ threads' = [threads EXCEPT ![u].pc = LoopTest]
    /\ UNCHANGED monitoring_thread
    /\ UnitFrame

\* a receive loop that survives whatever arrives
recv_other_tolerant(u, kind) ==
    /\ threads[u].pc = Receiving
    /\ threads' = [threads EXCEPT ![u].pc = LoopTest]
    /\ UNCHANGED <<transactions, ingested, monitoring_thread>>
    /\ UnitFrame

\* an except clause that also resets the session's flag
recv_other_resets(u, kind) ==
    /\ threads[u].pc = Receiving
    /\ IF kind = "no_payload"
       THEN /\ threads' = [threads EXCEPT ![u].pc = LoopTest]
            /\ UNCHANGED <<monitoring_thread, is_monitoring>>
       ELSE /\ Finish(u, Errored)
            /\ is_monitoring' = [is_monitoring EXCEPT ![threads[u].session] = FALSE]
    /\ UNCHANGED <<transactions, ingested, wallets, stop_event>>

\* a message without a storable transaction arrives: without a payload it
\* is skipped ("if transaction:"); the others raise into the outer except
recv_other(u, kind) ==
    /\ threads[u].pc = Receiving
    /\ IF kind = "no_payload"
       THEN /\ threads' = [threads EXCEPT ![u].pc = LoopTest]
            /\ UNCHANGED monitoring_thread
       ELSE Finish(u, Errored)
    /\ UNCHANGED <<transactions, ingested>>
    /\ UnitFrame

\* the connection drops while the thread sends or awaits
connection_closed(u) ==
    /\ threads[u].pc \in {Connected, Subscribed, Receiving}
    /\ IF threads[u].pc = Receiving
       THEN Finish(u, Disconnected)
       ELSE Finish(u, Errored)
    /\ UNCHANGED <<transactions, ingested>>
    /\ UnitFrame

----------------------------------------------------------------------------
Next ==
    \/ \E s \in Sessions : toggle_monitoring(s)
    \/ \E s \in Sessions : rerun(s)
    \/ \E a \in Inputs : AddWallet(a)
    \/ \E a \in Listed : RemoveWallet(a)
    \/ \E u \in Threads : connect(u)
    \/ \E u \in Threads : connect_fails(u)
    \/ \E u \in Threads : send_subscription(u)
    \/ \E u \in Threads : recv_ack(u)
    \/ \E u \in Threads : loop_test(u)
    \/ \E u \in Threads, t \in FeedTransactions : recv_transaction(u, t)
    \/ \E u \in Threads, kind \in OtherMessages : recv_other(u, kind)
    \/ \E u \in Threads : connection_closed(u)

Spec == Init /\ [][Next]_vars

\* a step the thread of session s takes by itself: the event loop runs it as
\* soon as it can (websockets.connect ends, one way or the other)
ThreadStep(s) ==
    \E u \in Threads :
        /\ threads[u].session = s
        /\ connect(u) \/ connect_fails(u) \/ send_subscription(u) \/ loop_test(u)

\* what the transport does to the thread of session s while it awaits
\* websocket.recv(): a message arrives or the connection closes
TransportEvent(s) ==
    \E u \in Threads :
        /\ threads[u].session = s
        /\ \/ recv_ack(u)
           \/ \E t \in FeedTransactions : recv_transaction(u, t)
           \/ \E kind \in OtherMessages : recv_other(u, kind)
           \/ connection_closed(u)

\* the steps that bear on a thread's termination: the toggles, the wallet
\* edits on one address, the threads' steps and the transport's events
StopNext ==
    \/ \E s \in Sessions : toggle_monitoring(s)
    \/ AddWallet(AddrA)
    \/ RemoveWallet(AddrA)
    \/ \E s \in Sessions : ThreadStep(s)
    \/ \E s \in Sessions : TransportEvent(s)

\* the threads run, and the transport never leaves a receive pending forever
FairSpec ==
    /\ Init /\ [][StopNext]_vars
    /\ \A s \in Sessions : WF_vars(ThreadStep(s)) /\ WF_vars(TransportEvent(s))

----------------------------------------------------------------------------
(* Properties *)

LiveThreads == {u \in Threads : is_alive(u)}
LiveThreadsOf(s) == {u \in LiveThreads : threads[u].session = s}
OpenConnections == {u \in Threads : threads[u].pc \in ConnectionOpen}

\* where the thread a session holds is
PcOf(s) ==
    IF monitoring_thread[s] = None THEN "None"
    ELSE threads[monitoring_thread[s]].pc

\* the request the thread a session holds has sent
RequestOf(s) ==
    IF monitoring_thread[s] = None THEN {}
    ELSE threads[monitoring_thread[s]].request

\* thread u has returned once the step is done
Ended(u) ==
    \/ Len(threads') < Len(threads)
    \/ threads'[u].pc \in Terminated

\* the address is in the wallets table, whatever the case of its hex digits
IsMonitored(address) ==
    \E w \in wallets : Lower(w.address) = Lower(address)

\* C1: within one browser session at most one background thread (hence at
\* most one feed connection) is alive at a time, whatever toggles, messages,
\* errors and closes came before.
C1_OneLiveThreadPerSession ==
    \A s \in Sessions :
        /\ Cardinality(LiveThreadsOf(s)) <= 1
        /\ Cardinality({u \in OpenConnections : threads[u].session = s}) <= 1

\* a session that toggled stop while its thread still awaits a message
C1_StoppedButReceiving ==
    \E s \in Sessions :
        /\ stop_event[s]
        /\ \E u \in LiveThreadsOf(s) : threads[u].pc = Receiving

\* C2 as stated: a row is stored only when the transaction's sender or
\* recipient is in the wallets table at the moment it is processed.
C2_StoredOnlyIfMonitored ==
    [][\A r \in transactions' \ transactions :
            IsMonitored(r.from_address) \/ IsMonitored(r.to_address)]_vars

\* C3 as stated: while the wallets table is empty no thread opens a feed
\* connection (a thread that reaches its connect step then gives up).
C3_NoConnectionWhenEmpty ==
    [][wallets = {} =>
            Cardinality(OpenConnections') <= Cardinality(OpenConnections)]_vars

\* C4 as stated: over all sessions of the process there is at most one live
\* background thread and one feed connection.
C4_OneLiveThreadPerProcess ==
    /\ Cardinality(LiveThreads) <= 1
    /\ Cardinality(OpenConnections) <= 1

\* C5: the step that sets the cancellation signal of a session is the step
\* that sets its is_monitoring to false, and it changes no thread: the
\* thread is as alive and as connected after the step as before it.
C5_StopIsImmediate ==
    [][\A s \in Sessions :
            (\/ ~stop_event[s] /\ stop_event'[s]
             \/ is_monitoring[s] /\ ~is_monitoring'[s])
            => /\ stop_event'[s]
               /\ ~is_monitoring'[s]
               /\ threads' = threads]_vars

\* the flag is false while the session's thread is alive and connected
C5_FlagFalseThreadConnected ==
    \E s \in Sessions :
        /\ stop_event[s]
        /\ ~is_monitoring[s]
        /\ \E u \in LiveThreadsOf(s) : threads[u].pc \in ConnectionOpen

\* C6: the table holds one row per payload handed to it: for every hash as
\* many rows as deliveries of that hash, and as many rows as payloads.
C6_NoDeduplication ==
    /\ \A h \in Hashes :
            Cardinality({r \in transactions : r.hash = h}) = ingested[h]
    /\ Cardinality(transactions) = Total(ingested)

\* one transaction was delivered twice and is stored twice
C6_SameHashTwice ==
    \E h \in Hashes :
        /\ ingested[h] = 2
        /\ Cardinality({r \in transactions : r.hash = h}) = 2

\* C7: every step keeps every row of transactions, with its fields as they
\* were.
C7_AppendOnly == [][transactions \subseteq transactions']_vars

\* rows outlive the wallet they were stored for and the thread that stored
\* them
C7_RowsOutliveWallet ==
    /\ Cardinality(transactions) = 2
    /\ wallets = {}
    /\ LiveThreads = {}

C8_Listing ==
    LET listing == fetch_transactions
    IN  /\ Len(listing) = Cardinality(transactions)
        /\ {listing[i] : i \in 1..Len(listing)} = transactions
        /\ \A i \in 1..(Len(listing) - 1) : listing[i].id > listing[i + 1].id

C8_IdsIncrease ==
    \A r \in transactions' \ transactions :
        \A q \in transactions : r.id > q.id

\* C8: a new row gets an id above every id in the table, and in every state
\* fetch_transactions lists all the rows in strictly descending id order (so
\* later rows come first).
C8_DescendingListing == [] C8_Listing /\ [][C8_IdsIncrease]_vars

\* two rows are listed, the later one first
C8_TwoRowsListed ==
    /\ Len(fetch_transactions) = 2
    /\ fetch_transactions[1].id = 2
    /\ fetch_transactions[2].id = 1

C9_OneEntryPerAddress ==
    \A r \in wallets : \A q \in wallets : r.address = q.address => r = q

C9_EntryKept ==
    \A r \in wallets :
        r \in wallets' \/ ~\E q \in wallets' : q.address = r.address

\* C9: the wallets table never holds two entries of one address, and a step
\* leaves an entry as it is (added_time included) or removes the address.
C9_AddIdempotent == [] C9_OneEntryPerAddress /\ [][C9_EntryKept]_vars

\* both spellings are stored, the first under the earlier reading of the
\* clock: adding either again must keep its entry
C9_EntriesPresent ==
    /\ Cardinality(wallets) = 2
    /\ \E r \in wallets : r.address = AddrA /\ r.added_time = "t1"

\* C10 as stated: no two entries of the wallets table hold the same address
\* in a different letter case.
C10_CaseInsensitive ==
    \A r \in wallets : \A q \in wallets :
        Lower(r.address) = Lower(q.address) => r = q

\* a step of the wallet handlers (or a refresh): nothing but the wallets
\* table may differ after it
WalletFrame ==
    UNCHANGED <<threads, transactions, monitoring_thread, stop_event,
                is_monitoring, ingested>>

\* the inputs that pass the format test
ValidInputs == {a \in Inputs : is_valid_eth_address(a)}

\* C11: an add with an input that fails is_valid_eth_address leaves the
\* wallets table as it is, an add with an input that passes leaves the
\* address in the table, and every address in the table passes the test.
C11_OnlyValidStored ==
    /\ [] (\A r \in wallets : is_valid_eth_address(r.address))
    /\ [][\A a \in Inputs :
            \/ IF a \in ValidInputs
               THEN \E r \in wallets' : r.address = a
               ELSE wallets' = wallets
            \/ ~AddWallet(a)]_vars

\* a well-formed input was stored (and "not-an-address" is an input that
\* fails the test)
C11_ValidStored ==
    /\ \E r \in wallets : r.address = AddrAUpper
    /\ ~is_valid_eth_address(NotAnAddress)
    /\ is_valid_eth_address(AddrAUpper)

\* C12: a Delete of an address that is not in the wallets table changes
\* nothing: not the table, not the transactions, not any session's state.
C12_RemoveAbsentIsNoOp ==
    [][\A a \in Listed :
            (WalletFrame /\ RemoveWallet(a)
                /\ ~\E r \in wallets : r.address = a)
            => UNCHANGED vars]_vars

\* one spelling is stored and the other is not, with rows stored and a
\* thread running: a Delete of the other spelling removes an absent address
C12_OtherSpellingAbsent ==
    /\ \E r \in wallets : r.address = AddrA
    /\ ~\E r \in wallets : r.address = AddrAUpper
    /\ transactions # {}
    /\ LiveThreads # {}

C14_CancelPolledPerMessage ==
    [][\A s \in Sessions :
            (stop_event[s] /\ LiveThreadsOf(s) # {}) =>
                /\ stop_event'[s]
                /\ PcOf(s) # Receiving => PcOf(s)' # Receiving
                /\ PcOf(s) = LoopTest =>
                        \/ PcOf(s)' = LoopTest
                        \/ PcOf(s)' = Closed /\ transactions' = transactions]_vars

\* a thread stored a row and then left the loop on the signal
C14_LeftOnSignal ==
    \E s \in Sessions :
        /\ stop_event[s]
        /\ PcOf(s) = Closed
        /\ Cardinality(transactions) = 1

\* C15: when the transport is fair, a session's thread that is alive when
\* the signal is set terminates (and with it its connection closes); and a
\* thread leaves a pending receive by a transport event only, so without one
\* it stays in the receive.
C15_StopTerminatesOnTransport ==
    /\ \A s \in Sessions :
            (stop_event[s] /\ LiveThreadsOf(s) # {}) ~> (LiveThreadsOf(s) = {})
    /\ [][\A s \in Sessions :
            PcOf(s) = Receiving =>
                (PcOf(s)' = Receiving \/ TransportEvent(s))]_vars

\* the signal is set while the thread awaits a message
C15_StoppedInReceive ==
    \E s \in Sessions :
        /\ stop_event[s]
        /\ ~is_monitoring[s]
        /\ PcOf(s) = Receiving
        /\ LiveThreadsOf(s) = {monitoring_thread[s]}

\* C16: a session's flag goes from true to false by that session's toggle
\* only, so no thread step, wallet edit or rerun resets it; and whenever the
\* thread a session holds has ended on an error with the signal not set, the
\* flag is true.
C16_FlagStaleAfterError ==
    /\ [] (\A s \in Sessions :
            (PcOf(s) \in {Errored, Disconnected, Crashed} /\ ~stop_event[s])
                => is_monitoring[s])
    /\ [][\A s \in Sessions :
            is_monitoring[s] => (is_monitoring'[s] \/ toggle_monitoring(s))]_vars

\* the flag is true, the thread died on a closed connection, and the wallet
\* list has been edited since its rows were stored
C16_FlagTrueThreadDead ==
    \E s \in Sessions :
        /\ is_monitoring[s]
        /\ PcOf(s) = Disconnected
        /\ LiveThreadsOf(s) = {}
        /\ wallets = {}
        /\ transactions # {}

\* C17: the request a thread sends is built from the wallets table as it is
\* at that step; from then on, whatever happens, the thread either ends or
\* keeps that request, and it never sends a request again.
C17_FilterIsSnapshot ==
    [][\A s \in Sessions :
            /\ (PcOf(s) = Connected /\ PcOf(s)' = Subscribed) =>
                    RequestOf(s)' = AddressFilters({r.address : r \in wallets})
            /\ PcOf(s) \in {Subscribed, LoopTest, Receiving} =>
                    \/ PcOf(s)' \in Terminated
                    \/ /\ PcOf(s)' \in {Subscribed, LoopTest, Receiving}
                       /\ RequestOf(s)' = RequestOf(s)
            /\ PcOf(s) \in {LoopTest, Receiving} => PcOf(s)' # Subscribed]_vars

\* a thread is receiving on a request that is not what the wallets table
\* would give now
C17_FilterOutOfDate ==
    \E s \in Sessions :
        /\ PcOf(s) = Receiving
        /\ RequestOf(s) # AddressFilters({r.address : r \in wallets})

\* C18: a toggle of a session whose signal is set and whose thread is still
\* alive creates no thread and changes no thread, leaves the signal set and
\* the flag false.
C18_ToggleWhileStoppingStops ==
    [][\A s \in Sessions :
            (stop_event[s] /\ LiveThreadsOf(s) # {}) =>
                \/ /\ threads' = threads
                   /\ monitoring_thread' = monitoring_thread
                   /\ stop_event'[s]
                   /\ ~is_monitoring'[s]
                \/ ~toggle_monitoring(s)]_vars

\* the session has been stopped and its thread still awaits a message, so
\* the next toggle finds it alive
C18_StoppedThreadPending ==
    \E s \in Sessions :
        /\ stop_event[s]
        /\ ~is_monitoring[s]
        /\ ~ShouldStart(s)
        /\ PcOf(s) = Receiving

\* C19: after a toggle the flag is true exactly when the session had no live
\* thread before it; in particular a toggle with the flag true and the thread
\* dead starts a thread, clears the signal and leaves the flag true.
C19_ToggleDecidesByLiveness ==
    [][\A s \in Sessions :
            \/ /\ is_monitoring'[s] <=> (LiveThreadsOf(s) = {})
               /\ (is_monitoring[s] /\ LiveThreadsOf(s) = {}) =>
                    /\ LiveThreadsOf(s)' # {}
                    /\ PcOf(s)' = Connecting
                    /\ ~stop_event'[s]
            \/ ~toggle_monitoring(s)]_vars

\* the flag is true and the thread the session holds died on a feed error
C19_FlagTrueAfterFeedError ==
    \E s \in Sessions :
        /\ is_monitoring[s]
        /\ monitoring_thread[s] # None
        /\ threads[monitoring_thread[s]].pc \in {Errored, Disconnected}

====
